---- MODULE Spec2Model ----
(***************************************************************************)
(* The user registry service of container-express-app/src/index.js: an     *)
(* Express application with the body-parser JSON middleware, three routes  *)
(* and one in-memory array of registered user ids.                         *)
(*                                                                         *)
(* Node runs every callback to completion on one event loop.  A request    *)
(* is in flight from the moment the server accepts it until its body has   *)
(* arrived; then the middleware and the route handler run in one tick, so  *)
(* serving a request is one atomic step, and the requests in flight are    *)
(* served in any order.                                                    *)
(***************************************************************************)
EXTENDS Integers, Sequences, FiniteSets, Bags, TLC

(***************************************************************************)
(* Bounds of the model.                                                    *)
(***************************************************************************)
\* number of events of one behaviour: the requests that are served or in
\* flight, and the restarts of the process
MaxReq == 3
\* number of requests that may be in flight (received, not answered) at once
MaxInFlight == 2

(***************************************************************************)
(* JSON values as they appear in the text of a request or response body.   *)
(* A value is written [kind, val]; val is the literal text of the value.   *)
(***************************************************************************)
JStr(s)  == [kind |-> "string",  val |-> s]
JNum(s)  == [kind |-> "number",  val |-> s]
JBool(s) == [kind |-> "boolean", val |-> s]
JNull    == [kind |-> "null",    val |-> "null"]
JArr     == [kind |-> "array",   val |-> "[]"]
JObj     == [kind |-> "object",  val |-> "{}"]

\* the userId values the clients send
UserIdTexts ==
    { JStr(""), JStr("alice"), JStr("Alice"), JStr(" alice"), JStr("alice "),
      JNum("0"), JNum("1"), JBool("false"), JBool("true"),
      JNull, JArr, JObj }

\* the request bodies the clients send with POST /users:
\*   none      - no body at all (or a content type the middleware skips)
\*   malformed - content type application/json, text that is not JSON (or
\*               is not an object or array, which strict mode refuses too)
\*   toolarge  - content type application/json, more than the 100kb the
\*               middleware reads by default
\*   object    - a JSON object, with or without a userId member
PostBodies ==
    { [form |-> "none"], [form |-> "malformed"], [form |-> "toolarge"],
      [form |-> "object", has |-> FALSE] }
    \cup { [form |-> "object", has |-> TRUE, userId |-> t] : t \in UserIdTexts }

(***************************************************************************)
(* JavaScript values held by the process.  Primitives are equal when kind  *)
(* and val are equal; every array or object produced by JSON.parse is a    *)
(* new reference, identified by ref (0 for primitives).                    *)
(***************************************************************************)
Undefined == [kind |-> "undefined", val |-> "undefined", ref |-> 0]

IsReference(t) == t.kind \in {"array", "object"}

\* JSON.parse of one value of a body; n numbers the parse, so that every
\* parse makes its own arrays and objects
JSONParse(t, n) ==
    [kind |-> t.kind, val |-> t.val, ref |-> IF IsReference(t) THEN n ELSE 0]

\* JSON.stringify of one value, as res.json does for every element
JSONStringify(v) == [kind |-> v.kind, val |-> v.val]

\* a check that tests only for null and undefined (newUserId == null)
Truthy_NullOnly(v) == v.kind \notin {"undefined", "null"}

\* ToBoolean: undefined, null, false, 0 and "" are falsy
Truthy(v) ==
    /\ v.kind \notin {"undefined", "null"}
    /\ ~(v.kind = "boolean" /\ v.val = "false")
    /\ ~(v.kind = "number" /\ v.val = "0")
    /\ ~(v.kind = "string" /\ v.val = "")

\* the text s without the white space around it and in lower case
TrimLower(s) == IF s \in {"alice", "Alice", " alice", "alice "} THEN "alice" ELSE s

\* a comparison that ignores letter case and the white space around a string
SameValueZero_Normalised(a, b) ==
    IF IsReference(a) \/ IsReference(b)
    THEN a.kind = b.kind /\ a.ref = b.ref
    ELSE a.kind = b.kind /\ TrimLower(a.val) = TrimLower(b.val)

\* SameValueZero on the values above (no NaN can come out of JSON.parse)
SameValueZero(a, b) ==
    IF IsReference(a) \/ IsReference(b)
    THEN a.kind = b.kind /\ a.ref = b.ref
    ELSE a.kind = b.kind /\ a.val = b.val

\* a search that looks at the last element only
Includes_LastOnly(arr, v) ==
    Len(arr) > 0 /\ SameValueZero(arr[Len(arr)], v)

\* a search written users.indexOf(v) > 0, which misses the first element
Includes_IndexOfPositive(arr, v) ==
    \E i \in 2..Len(arr) : SameValueZero(arr[i], v)

\* a check that takes any entry of the store for the value: users.length
Includes_AnyEntry(arr, v) == Len(arr) > 0

\* Array.prototype.includes
Includes(arr, v) == \E i \in 1..Len(arr) : SameValueZero(arr[i], v)

\* unshift in place of push: the new element goes to the front
Push_Unshift(arr, v) == <<v>> \o arr

\* concat in place of push: the array itself is left as it was
Push_Concat(arr, v) == arr

\* Array.prototype.push
Push(arr, v) == Append(arr, v)

(***************************************************************************)
(* The handler of app.post('/users') as a function of the store and of     *)
(* req.body.userId: the status it answers with and the store it leaves.    *)
(***************************************************************************)
PostUsersOutcome(arr, newUserId) ==
    IF ~Truthy(newUserId)
    THEN [status |-> 400, users |-> arr]
    ELSE IF Includes(arr, newUserId)
    THEN [status |-> 400, users |-> arr]
    ELSE [status |-> 201, users |-> Push(arr, newUserId)]

(***************************************************************************)
(* State.                                                                  *)
(***************************************************************************)
VARIABLES
    users,     \* const users = [] : the store
    inflight,  \* the requests accepted and not yet served (a bag)
    log,       \* the responses sent so far, in the order they were sent
    env,       \* process.env.PORT as the process was started: a text or "unset"
    port,      \* the port app.listen was called with
    demoPort,  \* the port the environment-variables demo listens on
    run        \* how many times the process has been started

vars == <<users, inflight, log, env, port, demoPort, run>>

(***************************************************************************)
(* The listening port.  PORT is a constant of the program; process.env is  *)
(* not read.                                                               *)
(***************************************************************************)
PORT == 3000

\* the values of the environment variable PORT the process is started with
PortTexts == { "unset", "3000", "8080" }

\* the port number a text of the environment names
PortNumber(txt) == IF txt = "8080" THEN 8080 ELSE 3000

\* a port read from the environment, with the constant as the fallback:
\* process.env.PORT || 3000
ListenPort_FromEnv(e) == IF e = "unset" THEN PORT ELSE PortNumber(e)

\* app.listen(PORT, ...) in the environment e
ListenPort(e) == PORT

\* the environment-variables demo: const port = process.env.PORT and
\* app.listen(port, ...).  Without PORT the argument is undefined and the
\* server listens on port 0: a free port the system picks.
DemoListenPort(e) == IF e = "unset" THEN 0 ELSE PortNumber(e)

\* a store that starts with an entry
Init_Seeded ==
    /\ users = <<[kind |-> "string", val |-> "admin", ref |-> 0]>>
    /\ inflight = EmptyBag
    /\ log = <<>>
    /\ env = "unset"
    /\ port = ListenPort(env)
    /\ demoPort = DemoListenPort(env)
    /\ run = 1

\* the process started in an environment without PORT
Init ==
    /\ users = <<>>
    /\ inflight = EmptyBag
    /\ log = <<>>
    /\ env = "unset"
    /\ port = ListenPort(env)
    /\ demoPort = DemoListenPort(env)
    /\ run = 1

\* the process started in any environment
InitEnv ==
    /\ users = <<>>
    /\ inflight = EmptyBag
    /\ log = <<>>
    /\ env \in PortTexts
    /\ port = ListenPort(env)
    /\ demoPort = DemoListenPort(env)
    /\ run = 1

\* the number of the request that is served next
Serial == Len(log) + 1

\* the events so far: responses sent, requests in flight, restarts
Events == Len(log) + BagCardinality(inflight) + (run - 1)

(***************************************************************************)
(* Responses.  An entry of log records one served request: the request,    *)
(* the response (status, content type, text or JSON array), who wrote it,  *)
(* the store just before and just after the step, whether another request  *)
(* with the same route and body was in flight during the step, and the     *)
(* number of the process run.                                              *)
(***************************************************************************)
Response(q, st, ty, txt, arr, who, after) ==
    [route |-> q.route, body |-> q.body, status |-> st, type |-> ty,
     text |-> txt, users |-> arr, by |-> who,
     before |-> users, after |-> after,
     raced |-> CopiesIn(q, inflight) > 1,
     run |-> run]

\* res.send(text) and res.status(code).send(text)
Send(q, st, txt, after) == Response(q, st, "text", txt, <<>>, "handler", after)

\* the array sent in reverse order
Json_Reversed(q, arr) ==
    Response(q, 200, "json", "",
             [k \in 1..Len(arr) |-> JSONStringify(arr[Len(arr) + 1 - k])],
             "handler", users)

\* res.json({ users }): JSON.stringify of the array, element by element
Json(q, arr) ==
    Response(q, 200, "json", "", [k \in 1..Len(arr) |-> JSONStringify(arr[k])],
             "handler", users)

\* the response ends the request
Answer(q, r) ==
    /\ inflight' = inflight (-) SetToBag({q})
    /\ log' = Append(log, r)
    /\ UNCHANGED <<env, port, demoPort, run>>

(***************************************************************************)
(* A client sends a request and the server accepts it.                     *)
(***************************************************************************)
Receive(route, body) ==
    /\ Events < MaxReq
    /\ BagCardinality(inflight) < MaxInFlight
    /\ inflight' = inflight (+) SetToBag({[route |-> route, body |-> body]})
    /\ UNCHANGED <<users, log, env, port, demoPort, run>>

(***************************************************************************)
(* app.use(bodyParser.json()), body-parser 1.20.2 in its default (strict)  *)
(* mode, on the n-th request served.  Without a JSON body req.body is {};  *)
(* a JSON object is parsed; the middleware calls next(err) with            *)
(* err.status = 400 for a text that does not parse and with                *)
(* err.status = 413 for a body over its size limit.  userId is what        *)
(* req.body.userId then reads.                                             *)
(***************************************************************************)
\* a middleware that leaves req.body undefined when there is no body, so
\* that reading req.body.userId throws and the request ends with 500
BodyParserJson_NoBodyUndefined(q, n) ==
    IF q.body.form \in {"none", "malformed", "toolarge"}
    THEN [err |-> TRUE,
          status |-> IF q.body.form = "none" THEN 500
                     ELSE IF q.body.form = "malformed" THEN 400 ELSE 413,
          userId |-> Undefined]
    ELSE [err |-> FALSE, status |-> 0,
          userId |-> IF q.body.has THEN JSONParse(q.body.userId, n)
                     ELSE Undefined]

BodyParserJson(q, n) ==
    IF q.body.form \in {"malformed", "toolarge"}
    THEN [err |-> TRUE,
          status |-> IF q.body.form = "malformed" THEN 400 ELSE 413,
          userId |-> Undefined]
    ELSE [err |-> FALSE, status |-> 0,
          userId |-> IF q.body.form = "object" /\ q.body.has
                     THEN JSONParse(q.body.userId, n)
                     ELSE Undefined]

\* an error handler that answers every error with 500
ErrorHandler_Always500(q) ==
    /\ BagIn(q, inflight)
    /\ BodyParserJson(q, Serial).err
    /\ Answer(q, Response(q, 500, "html", "Error", <<>>,
                          "errorhandler", users))
    /\ UNCHANGED users

\* next(err): no route handler runs; Express' default error handler answers
\* with err.status and an HTML page
ErrorHandler(q) ==
    /\ BagIn(q, inflight)
    /\ BodyParserJson(q, Serial).err
    /\ Answer(q, Response(q, BodyParserJson(q, Serial).status, "html", "Error",
                          <<>>, "errorhandler", users))
    /\ UNCHANGED users

\* the greeting of another application of the repository
GetRoot_Express(q) ==
    /\ BagIn(q, inflight)
    /\ q.route = "GET /"
    /\ ~BodyParserJson(q, Serial).err
    /\ Answer(q, Send(q, 200, "Hello from Express!", users))
    /\ UNCHANGED users

(***************************************************************************)
(* app.get('/')                                                            *)
(***************************************************************************)
GetRoot(q) ==
    /\ BagIn(q, inflight)
    /\ q.route = "GET /"
    /\ ~BodyParserJson(q, Serial).err
    /\ Answer(q, Send(q, 200, "Hello, World!", users))
    /\ UNCHANGED users

\* a handler that empties the store while answering: users.splice(0)
GetUsers_Splice(q) ==
    /\ BagIn(q, inflight)
    /\ q.route = "GET /users"
    /\ ~BodyParserJson(q, Serial).err
    /\ Answer(q, Response(q, 200, "json", "",
                          [k \in 1..Len(users) |-> JSONStringify(users[k])],
                          "handler", <<>>))
    /\ users' = <<>>

\* a handler that answers with the store as it was one response earlier
GetUsers_Stale(q) ==
    /\ BagIn(q, inflight)
    /\ q.route = "GET /users"
    /\ ~BodyParserJson(q, Serial).err
    /\ Answer(q, Json(q, IF log = <<>> THEN users ELSE log[Len(log)].before))
    /\ UNCHANGED users

(***************************************************************************)
(* app.get('/users')                                                       *)
(***************************************************************************)
GetUsers(q) ==
    /\ BagIn(q, inflight)
    /\ q.route = "GET /users"
    /\ ~BodyParserJson(q, Serial).err
    /\ Answer(q, Json(q, users))
    /\ UNCHANGED users

\* a handler whose membership check and append are not one step: the check
\* reads the store as it was before the latest response was sent
PostUsers_Stale(q) ==
    /\ BagIn(q, inflight)
    /\ q.route = "POST /users"
    /\ ~BodyParserJson(q, Serial).err
    /\ LET newUserId == BodyParserJson(q, Serial).userId
           seen == IF log = <<>> THEN users ELSE log[Len(log)].before IN
       IF ~Truthy(newUserId)
       THEN /\ Answer(q, Send(q, 400, "Missing user Id", users))
            /\ UNCHANGED users
       ELSE IF Includes(seen, newUserId)
       THEN /\ Answer(q, Send(q, 400, "User already exists", users))
            /\ UNCHANGED users
       ELSE /\ users' = Push(users, newUserId)
            /\ Answer(q, Send(q, 201, "User registered successfully.",
                              Push(users, newUserId)))

\* a handler that waits until no other request is in flight before it
\* answers
PostUsers_Await(q) ==
    /\ BagIn(q, inflight)
    /\ q.route = "POST /users"
    /\ ~BodyParserJson(q, Serial).err
    /\ BagCardinality(inflight) = 1
    /\ LET newUserId == BodyParserJson(q, Serial).userId IN
       IF ~Truthy(newUserId)
       THEN /\ Answer(q, Send(q, 400, "Missing user Id", users))
            /\ UNCHANGED users
       ELSE IF Includes(users, newUserId)
       THEN /\ Answer(q, Send(q, 400, "User already exists", users))
            /\ UNCHANGED users
       ELSE /\ users' = Push(users, newUserId)
            /\ Answer(q, Send(q, 201, "User registered successfully.",
                              Push(users, newUserId)))

\* a handler that answers both refusals with one message
PostUsers_OneMessage(q) ==
    /\ BagIn(q, inflight)
    /\ q.route = "POST /users"
    /\ ~BodyParserJson(q, Serial).err
    /\ LET newUserId == BodyParserJson(q, Serial).userId IN
       IF ~Truthy(newUserId) \/ Includes(users, newUserId)
       THEN /\ Answer(q, Send(q, 400, "Missing user Id", users))
            /\ UNCHANGED users
       ELSE /\ users' = Push(users, newUserId)
            /\ Answer(q, Send(q, 201, "User registered successfully.",
                              Push(users, newUserId)))

\* a handler without return after the first refusal: for a missing userId
\* it sends 400, goes on to the membership check and the push, and sends
\* again
PostUsers_NoReturn(q) ==
    /\ BagIn(q, inflight)
    /\ q.route = "POST /users"
    /\ ~BodyParserJson(q, Serial).err
    /\ LET newUserId == BodyParserJson(q, Serial).userId IN
       IF ~Truthy(newUserId)
       THEN /\ users' = Push(users, newUserId)
            /\ inflight' = inflight (-) SetToBag({q})
            /\ log' = Append(Append(log, Send(q, 400, "Missing user Id", users)),
                             Send(q, 201, "User registered successfully.",
                                  Push(users, newUserId)))
            /\ UNCHANGED <<env, port, demoPort, run>>
       ELSE IF Includes(users, newUserId)
       THEN /\ Answer(q, Send(q, 400, "User already exists", users))
            /\ UNCHANGED users
       ELSE /\ users' = Push(users, newUserId)
            /\ Answer(q, Send(q, 201, "User registered successfully.",
                              Push(users, newUserId)))

(***************************************************************************)
(* app.post('/users')                                                      *)
(***************************************************************************)
PostUsers(q) ==
    /\ BagIn(q, inflight)
    /\ q.route = "POST /users"
    /\ ~BodyParserJson(q, Serial).err
    /\ LET newUserId == BodyParserJson(q, Serial).userId IN
       IF ~Truthy(newUserId)
       THEN /\ Answer(q, Send(q, 400, "Missing user Id", users))
            /\ UNCHANGED users
       ELSE IF Includes(users, newUserId)
       THEN /\ Answer(q, Send(q, 400, "User already exists", users))
            /\ UNCHANGED users
       ELSE /\ users' = Push(users, newUserId)
            /\ Answer(q, Send(q, 201, "User registered successfully.",
                              Push(users, newUserId)))

Next ==
    \/ \E body \in PostBodies : Receive("POST /users", body)
    \/ \E route \in {"GET /", "GET /users"} : Receive(route, [form |-> "none"])
    \/ \E q \in BagToSet(inflight) : ErrorHandler(q)
    \/ \E q \in BagToSet(inflight) : GetRoot(q)
    \/ \E q \in BagToSet(inflight) : GetUsers(q)
    \/ \E q \in BagToSet(inflight) : PostUsers(q)

Spec == Init /\ [][Next]_vars

\* the same service started in any environment
SpecEnv == InitEnv /\ [][Next]_vars

(***************************************************************************)
(* The process is terminated from outside and started again: the module is *)
(* loaded anew, so const users = [] runs again; the connections of the old *)
(* process are gone.  What the clients were answered stays in log.         *)
(***************************************************************************)
\* a restart that brings the old store back
Restart_Persistent ==
    /\ Events < MaxReq
    /\ run' = run + 1
    /\ users' = users
    /\ inflight' = EmptyBag
    /\ port' = ListenPort(env)
    /\ UNCHANGED <<log, env, demoPort>>

Restart ==
    /\ Events < MaxReq
    /\ run' = run + 1
    /\ users' = <<>>
    /\ inflight' = EmptyBag
    /\ port' = ListenPort(env)
    /\ UNCHANGED <<log, env, demoPort>>

NextRestart == Next \/ Restart

SpecRestart == Init /\ [][NextRestart]_vars

(***************************************************************************)
(* Vocabulary of the properties below.                                     *)
(***************************************************************************)
\* a user identifier: a non-empty string
IsIdentifier(v) == v.kind = "string" /\ v.val # ""

\* the identifiers the clients send, as the handler holds them
Identifiers == { JSONParse(t, 0) : t \in { u \in UserIdTexts : IsIdentifier(u) } }

\* the log entries of the requests the POST /users handler answered
IsPost(e) == e.route = "POST /users" /\ e.by = "handler"
IsGetUsers(e) == e.route = "GET /users" /\ e.by = "handler"

\* req.body.userId as the handler read it while serving the k-th request
\* (Undefined when the body has none)
UserIdOf(k) == BodyParserJson(log[k], k).userId

\* whether the body of the k-th request served has a userId member
HasUserId(k) == log[k].body.form = "object" /\ log[k].body.has

\* the values of a userId that count as missing or empty: no userId at all,
\* null, false, 0 and the empty string
Missing ==
    { Undefined } \cup
    { JSONParse(t, 0) : t \in { JNull, JBool("false"), JNum("0"), JStr("") } }

\* the value v is held at some position of arr
Holds(arr, v) == \E k \in 1..Len(arr) : arr[k] = v

\* the number of positions of arr that hold v
Copies(arr, v) == Cardinality({ k \in 1..Len(arr) : arr[k] = v })

\* the log tells the history of the store: each step starts where the one
\* before ended, and the store is what the last step left
LogChained ==
    /\ \A k \in 1..Len(log) :
          log[k].before = (IF k = 1 THEN <<>> ELSE log[k-1].after)
    /\ users = (IF log = <<>> THEN <<>> ELSE log[Len(log)].after)

(***************************************************************************)
(* C1: in every reachable state, whatever requests with whatever bodies    *)
(* were served in whatever order, no two positions of the store hold the   *)
(* same value; in particular no identifier is stored twice.  Values are    *)
(* the same as JavaScript has it: strings by exact match, while the arrays *)
(* and objects parsed from two requests are two values.                    *)
(***************************************************************************)
C1_NoDuplicates ==
    \A i, j \in 1..Len(users) : i # j => users[i] # users[j]

\* the store holds two entries and a registration of one of them was refused
C1_Witness ==
    /\ Len(users) >= 2
    /\ \E k \in 1..Len(log) :
          /\ IsPost(log[k]) /\ log[k].status = 400
          /\ IsIdentifier(UserIdOf(k))
          /\ Holds(log[k].before, UserIdOf(k))
          /\ Len(log[k].before) >= 2

\* the answered POST /users requests whose userId is s
PostsFor(s) == { k \in 1..Len(log) : IsPost(log[k]) /\ UserIdOf(k) = s }

(***************************************************************************)
(* C2: of the POST /users requests that carry one identifier and have been *)
(* answered, exactly one was answered 201 and all others 400, and the      *)
(* store holds exactly one copy of the identifier; this holds also when    *)
(* the requests were in flight at the same time, because the membership    *)
(* check and the append of a request are one step.                         *)
(***************************************************************************)
C2_ExactlyOneWins ==
    \A s \in Identifiers :
        PostsFor(s) # {} =>
            /\ Cardinality({ k \in PostsFor(s) : log[k].status = 201 }) = 1
            /\ \A k \in PostsFor(s) : log[k].status \in {201, 400}
            /\ Copies(users, s) = 1

\* two requests for one identifier overlapped: both were in flight when the
\* first of them was served and answered 201; the other was served next
C2_Witness ==
    /\ Len(log) = 2
    /\ inflight = EmptyBag
    /\ IsPost(log[1]) /\ IsPost(log[2])
    /\ IsIdentifier(UserIdOf(1))
    /\ UserIdOf(1) = UserIdOf(2)
    /\ log[1].raced
    /\ log[1].status = 201
    /\ log[2].status = 400
    /\ Copies(users, UserIdOf(1)) = 1

(***************************************************************************)
(* C3: a POST /users whose userId is neither missing nor empty and is not  *)
(* in the store is answered 201, and the store after it is the store       *)
(* before it with the userId appended as the last element.                 *)
(***************************************************************************)
C3_RegisterAppends ==
    /\ LogChained
    /\ \A k \in 1..Len(log) :
          (/\ IsPost(log[k])
           /\ UserIdOf(k) \notin Missing
           /\ ~Holds(log[k].before, UserIdOf(k)))
          => /\ log[k].status = 201
             /\ log[k].after = Append(log[k].before, UserIdOf(k))
             /\ Len(log[k].after) = Len(log[k].before) + 1
             /\ \A m \in 1..Len(log[k].before) :
                   log[k].after[m] = log[k].before[m]

\* an identifier was registered into a store that already held two entries
C3_Witness ==
    /\ log # <<>>
    /\ LET e == log[Len(log)] IN
          /\ IsPost(e) /\ e.status = 201
          /\ IsIdentifier(UserIdOf(Len(log)))
          /\ Len(e.before) = 2
          /\ users = Append(e.before, UserIdOf(Len(log)))

(***************************************************************************)
(* C4: a POST /users whose body has no userId, or whose userId is falsy    *)
(* (empty string, 0, false, null), is answered 400 and leaves the store as *)
(* it was, so the GET /users before it and the one after it return the     *)
(* same.                                                                   *)
(***************************************************************************)
C4_MissingRejected ==
    /\ LogChained
    /\ \A k \in 1..Len(log) :
          (IsPost(log[k]) /\ (~HasUserId(k) \/ UserIdOf(k) \in Missing))
          => /\ log[k].status = 400
             /\ log[k].after = log[k].before
             /\ (/\ k > 1 /\ k < Len(log)
                 /\ IsGetUsers(log[k-1]) /\ IsGetUsers(log[k+1]))
                => log[k-1].users = log[k+1].users

\* GET /users, then a POST whose body is an object without userId, then
\* GET /users
C4_Witness ==
    \E k \in 2..(Len(log) - 1) :
        /\ IsPost(log[k]) /\ log[k].status = 400
        /\ log[k].body.form = "object" /\ ~HasUserId(k)
        /\ IsGetUsers(log[k-1]) /\ IsGetUsers(log[k+1])

(***************************************************************************)
(* C5: a POST /users whose userId is already in the store is answered 400  *)
(* and leaves the store as it was: same elements, same order, same length. *)
(***************************************************************************)
C5_DuplicateRejected ==
    /\ LogChained
    /\ \A k \in 1..Len(log) :
          (IsPost(log[k]) /\ Holds(log[k].before, UserIdOf(k)))
          => /\ log[k].status = 400
             /\ log[k].after = log[k].before

\* an identifier that is not the last entry of the store was sent again
C5_Witness ==
    /\ log # <<>>
    /\ LET e == log[Len(log)] IN
          /\ IsPost(e) /\ e.status = 400
          /\ Len(e.before) = 2
          /\ e.before[1] = UserIdOf(Len(log))
          /\ users = e.before

(***************************************************************************)
(* C6: of two POST /users requests for one identifier that are served one  *)
(* after the other, starting with the identifier not registered, the first *)
(* is answered 201 and the second 400, whatever requests are served        *)
(* between them.                                                           *)
(***************************************************************************)
C6_TwiceInSequence ==
    \A a, b \in 1..Len(log) :
        (/\ a < b
         /\ IsPost(log[a]) /\ IsPost(log[b])
         /\ IsIdentifier(UserIdOf(a))
         /\ UserIdOf(a) = UserIdOf(b)
         /\ ~Holds(log[a].before, UserIdOf(a)))
        => log[a].status = 201 /\ log[b].status = 400

\* another identifier was registered between the two requests
C6_Witness ==
    /\ Len(log) >= 3
    /\ IsPost(log[1]) /\ IsPost(log[2]) /\ IsPost(log[3])
    /\ IsIdentifier(UserIdOf(1))
    /\ UserIdOf(1) = UserIdOf(3)
    /\ UserIdOf(2) # UserIdOf(1)
    /\ log[1].status = 201 /\ log[2].status = 201 /\ log[3].status = 400

(***************************************************************************)
(* C7: after a POST /users for a non-empty string that was not registered, *)
(* every later GET /users returns a users array in which that string       *)
(* occurs exactly once.                                                    *)
(***************************************************************************)
C7_ListedOnce ==
    \A a, b \in 1..Len(log) :
        (/\ a < b
         /\ IsPost(log[a]) /\ IsGetUsers(log[b])
         /\ IsIdentifier(UserIdOf(a))
         /\ ~Holds(log[a].before, UserIdOf(a)))
        => /\ log[b].status = 200
           /\ Copies(log[b].users, JSONStringify(UserIdOf(a))) = 1

\* the string was registered into a store that held another entry, and a
\* GET /users followed
C7_Witness ==
    \E a \in 1..Len(log) :
        /\ a < Len(log)
        /\ IsPost(log[a]) /\ log[a].status = 201
        /\ IsIdentifier(UserIdOf(a))
        /\ log[a].before # <<>>
        /\ IsGetUsers(log[a+1])
        /\ Len(log[a+1].users) = 2

\* a log entry of a registration: a POST /users answered 201
IsRegistration(e) == e.route = "POST /users" /\ e.status = 201

\* the userIds, as the clients wrote them, of the requests answered 201
\* among the first n responses, in the order of the responses
RegisteredTexts(n) ==
    LET regs == SelectSeq(SubSeq(log, 1, n), IsRegistration)
    IN  [k \in 1..Len(regs) |-> regs[k].body.userId]

(***************************************************************************)
(* C8: every GET /users is answered 200 with a JSON object whose users     *)
(* array is the store at that moment: the userId of every request answered *)
(* 201 so far, in the order of registration, and nothing else; it is the   *)
(* empty array when nothing is registered.                                 *)
(***************************************************************************)
C8_ListIsStore ==
    /\ LogChained
    /\ \A b \in 1..Len(log) :
          IsGetUsers(log[b])
          => /\ log[b].status = 200
             /\ log[b].type = "json"
             /\ log[b].users = RegisteredTexts(b - 1)
             /\ Len(log[b].users) = Len(log[b].before)
             /\ \A k \in 1..Len(log[b].users) :
                   log[b].users[k] = JSONStringify(log[b].before[k])

\* a GET /users answered with two different entries
C8_Witness ==
    /\ log # <<>>
    /\ LET e == log[Len(log)] IN
          /\ IsGetUsers(e)
          /\ Len(e.users) = 2
          /\ e.users[1] # e.users[2]
          /\ Len(users) = 2

\* none of the first n responses is a registration
NoRegistration(n) == \A k \in 1..n : ~IsRegistration(log[k])

(***************************************************************************)
(* C9: as long as no POST /users has been answered 201 the store is the    *)
(* empty sequence, and every GET /users answered until then returned an    *)
(* empty users array.                                                      *)
(***************************************************************************)
C9_FreshIsEmpty ==
    /\ NoRegistration(Len(log)) => users = <<>>
    /\ \A b \in 1..Len(log) :
          (IsGetUsers(log[b]) /\ NoRegistration(b - 1))
          => log[b].status = 200 /\ log[b].type = "json" /\ log[b].users = <<>>

\* a GET /users answered with the empty array after a refused POST /users
C9_Witness ==
    \E b \in 2..Len(log) :
        /\ IsGetUsers(log[b]) /\ NoRegistration(b - 1)
        /\ log[b].users = <<>>
        /\ IsPost(log[b-1]) /\ log[b-1].status = 400

(***************************************************************************)
(* C10: GET /users leaves the store as it was, and two GET /users with no  *)
(* POST /users answered 201 between them return the same response.         *)
(***************************************************************************)
C10_ReadsRepeat ==
    /\ LogChained
    /\ \A a \in 1..Len(log) : IsGetUsers(log[a]) => log[a].after = log[a].before
    /\ \A a, b \in 1..Len(log) :
          (/\ a < b
           /\ IsGetUsers(log[a]) /\ IsGetUsers(log[b])
           /\ \A k \in (a+1)..(b-1) : ~IsRegistration(log[k]))
          => /\ log[a].status = log[b].status
             /\ log[a].type = log[b].type
             /\ log[a].users = log[b].users

\* two GET /users in a row on a store that holds one entry
C10_Witness ==
    /\ Len(log) >= 3
    /\ IsRegistration(log[1])
    /\ IsGetUsers(log[2]) /\ IsGetUsers(log[3])
    /\ log[2].users = log[3].users
    /\ Len(log[3].users) = 1

(***************************************************************************)
(* C11: every GET / is answered 200 with the text "Hello, World!" by its   *)
(* handler, whatever the store holds, and leaves the store as it was.      *)
(***************************************************************************)
C11_RootHello ==
    /\ LogChained
    /\ \A k \in 1..Len(log) :
          log[k].route = "GET /"
          => /\ log[k].status = 200
             /\ log[k].type = "text"
             /\ log[k].text = "Hello, World!"
             /\ log[k].by = "handler"
             /\ log[k].after = log[k].before

\* GET / answered on the empty store and again after a registration
C11_Witness ==
    /\ Len(log) >= 3
    /\ log[1].route = "GET /" /\ log[3].route = "GET /"
    /\ IsRegistration(log[2])
    /\ log[1].before = <<>> /\ log[3].before # <<>>
    /\ log[1].text = log[3].text
    /\ users = log[3].before

\* s is the beginning of t
IsPrefix(s, t) == Len(s) <= Len(t) /\ SubSeq(t, 1, Len(s)) = s

(***************************************************************************)
(* C12: insertion order is kept: in every step the store before the step   *)
(* is a prefix of the store after it, so the store at any point of a run   *)
(* is a prefix of the store at every later point; entries are appended at  *)
(* the end and never moved.                                                *)
(***************************************************************************)
C12_AppendOnly == [][IsPrefix(users, users')]_vars

\* the store grew from one entry to two with the first entry in its place
C12_Witness ==
    /\ Len(users) = 2
    /\ \E k \in 1..Len(log) :
          /\ Len(log[k].before) = 1
          /\ Len(log[k].after) = 2
          /\ log[k].before[1] = users[1]
          /\ log[k].after = users

(***************************************************************************)
(* C13: the store changes only in the step that answers a POST /users with *)
(* 201, and that step makes it one entry longer; no step removes or        *)
(* replaces an entry, so its length never decreases.                       *)
(***************************************************************************)
C13_GrowsOnlyByRegistration ==
    [][/\ Len(users') >= Len(users)
       /\ users' # users =>
             /\ Len(users') = Len(users) + 1
             /\ Len(log') = Len(log) + 1
             /\ IsRegistration(log'[Len(log')])]_vars

\* a registration, then a GET /users and a refused POST /users that left the
\* store alone
C13_Witness ==
    /\ Len(log) = 3
    /\ IsRegistration(log[1])
    /\ IsGetUsers(log[2])
    /\ IsPost(log[3]) /\ log[3].status = 400
    /\ users = log[1].after
    /\ Len(users) = 1

\* the step that serves the request q, whichever it is
Serve(q) == ErrorHandler(q) \/ GetRoot(q) \/ GetUsers(q) \/ PostUsers(q)

\* the process is up: it has not been restarted since the k-th response and
\* every request in flight can be served
StillServing(k) ==
    /\ run = log[k].run
    /\ \A q \in BagToSet(inflight) : ENABLED Serve(q)

(***************************************************************************)
(* C14: a POST /users whose body is not valid JSON is answered with a      *)
(* status between 400 and 499, leaves the store as it was, and does not    *)
(* end the process: the requests after it are served.                      *)
(***************************************************************************)
C14_MalformedRejected ==
    /\ LogChained
    /\ \A k \in 1..Len(log) :
          (log[k].route = "POST /users" /\ log[k].body.form = "malformed")
          => /\ log[k].status \in 400..499
             /\ log[k].after = log[k].before
             /\ StillServing(k)

\* the store held an entry when the malformed body came, and the GET /users
\* served after it still lists that entry
C14_Witness ==
    /\ Len(log) = 3
    /\ IsRegistration(log[1])
    /\ log[2].route = "POST /users" /\ log[2].body.form = "malformed"
    /\ log[2].status = 400
    /\ IsGetUsers(log[3]) /\ Len(log[3].users) = 1
    /\ users = log[1].after

(***************************************************************************)
(* C15: every POST /users is answered and none ends the process.  When the *)
(* JSON middleware accepts the body (no body, an object with or without    *)
(* userId) the route handler itself answers 201 or 400.  When the          *)
(* middleware rejects the body (text that is not JSON, a body over the     *)
(* size limit) the route handler does not run: Express' default error      *)
(* handler answers with the 4xx status of the error and the store is left  *)
(* as it was.                                                              *)
(***************************************************************************)
C15_AnsweredOrRejected ==
    \A k \in 1..Len(log) :
        log[k].route = "POST /users"
        => /\ StillServing(k)
           /\ IF log[k].body.form \in {"malformed", "toolarge"}
              THEN /\ log[k].by = "errorhandler"
                   /\ log[k].status \in 400..499
                   /\ log[k].after = log[k].before
              ELSE /\ log[k].by = "handler"
                   /\ log[k].status \in {201, 400}

\* a request without body answered by the handler, and a malformed and an
\* oversized body answered by the error handler
C15_Witness ==
    /\ Len(log) = 3
    /\ log[1].route = "POST /users" /\ log[1].body.form = "none"
    /\ log[1].by = "handler" /\ log[1].status = 400
    /\ log[2].body.form = "malformed"
    /\ log[2].by = "errorhandler" /\ log[2].status = 400
    /\ log[3].body.form = "toolarge"
    /\ log[3].by = "errorhandler" /\ log[3].status = 413

\* C15 as first stated: every POST /users, whatever its body, is answered by
\* the route handler itself with 201 or 400
C15_Original ==
    \A k \in 1..Len(log) :
        log[k].route = "POST /users"
        => log[k].by = "handler" /\ log[k].status \in {201, 400}

(***************************************************************************)
(* C16: a POST /users whose userId is a number, a boolean, an array or an  *)
(* object is answered 400 and the value is not added to the store.         *)
(***************************************************************************)
C16_NonStringRejected ==
    \A k \in 1..Len(log) :
        (/\ IsPost(log[k])
         /\ HasUserId(k)
         /\ UserIdOf(k).kind \in {"number", "boolean", "array", "object"})
        => /\ log[k].status = 400
           /\ log[k].after = log[k].before

(***************************************************************************)
(* C17: in every reachable state every element of the store is a non-empty *)
(* string.                                                                 *)
(***************************************************************************)
C17_OnlyIdentifiers ==
    \A i \in 1..Len(users) : IsIdentifier(users[i])

StoreAfter(k) == IF k = 0 THEN <<>> ELSE log[k].after

\* JSON.stringify of a whole array
Stringified(arr) == [m \in 1..Len(arr) |-> JSONStringify(arr[m])]

(***************************************************************************)
(* C19: a GET /users served while other requests are in flight returns a   *)
(* snapshot: the whole store as it was at one instant, the instant of the  *)
(* step that serves it, which is the store the latest earlier step left;   *)
(* never a mixture of two stores or a part of an append.                   *)
(***************************************************************************)
C19_Snapshot ==
    \A k \in 1..Len(log) :
        IsGetUsers(log[k])
        => /\ log[k].before = StoreAfter(k - 1)
           /\ log[k].after = log[k].before
           /\ log[k].users = Stringified(StoreAfter(k - 1))

\* two POST /users for one identifier were in flight; one was served and
\* registered it, then a GET /users arrived and was served while the other
\* POST /users was still in flight
C19_Witness ==
    /\ Len(log) = 3
    /\ inflight = EmptyBag
    /\ IsRegistration(log[1]) /\ log[1].raced
    /\ IsGetUsers(log[2])
    /\ IsPost(log[3]) /\ log[3].body = log[1].body /\ log[3].status = 400
    /\ log[2].users = Stringified(users)
    /\ Len(users) = 1

\* the positions in log of the registrations of the process run r
RegistrationsOf(r) ==
    SelectSeq([k \in 1..Len(log) |-> k],
              LAMBDA k : IsRegistration(log[k]) /\ log[k].run = r)

(***************************************************************************)
(* C20: the store does not outlive the process.  The store holds exactly   *)
(* what was registered since the latest start, so after a restart it is    *)
(* the empty sequence whatever was registered before, and a POST /users    *)
(* for an identifier not yet registered in the current run is answered     *)
(* 201 even when an earlier run registered it.                             *)
(***************************************************************************)
C20_NoPersistence ==
    /\ users = [m \in 1..Len(RegistrationsOf(run)) |->
                   UserIdOf(RegistrationsOf(run)[m])]
    /\ \A k \in 1..Len(log) :
          (/\ IsPost(log[k])
           /\ IsIdentifier(UserIdOf(k))
           /\ \A j \in 1..(k - 1) :
                 ~(/\ IsRegistration(log[j])
                   /\ log[j].run = log[k].run
                   /\ UserIdOf(j) = UserIdOf(k)))
          => /\ log[k].status = 201
             /\ log[k].after = Append(log[k].before, UserIdOf(k))

\* an identifier registered in the first run was registered again in the
\* second
C20_Witness ==
    /\ Len(log) = 2
    /\ run = 2
    /\ IsRegistration(log[1]) /\ log[1].run = 1
    /\ IsRegistration(log[2]) /\ log[2].run = 2
    /\ IsIdentifier(UserIdOf(1))
    /\ UserIdOf(1) = UserIdOf(2)
    /\ log[2].before = <<>>
    /\ users = <<UserIdOf(2)>>

(***************************************************************************)
(* Scheduling.  The body of an accepted request arrives, and the event     *)
(* loop runs every callback that is ready: no callback of the program      *)
(* loops or waits, so a request that can be served is not passed over for  *)
(* ever.                                                                   *)
(***************************************************************************)
\* the requests the clients send
Requests ==
    { [route |-> "POST /users", body |-> b] : b \in PostBodies }
    \cup { [route |-> r, body |-> [form |-> "none"]] : r \in {"GET /", "GET /users"} }

SpecFair == Init /\ [][Next]_vars /\ \A q \in Requests : WF_vars(Serve(q))

(***************************************************************************)
(* C21: under fair scheduling of the handlers every accepted request, on   *)
(* each of the three routes, eventually receives its response: whenever    *)
(* requests are in flight, a state follows in which all of them have been  *)
(* answered.  No request in flight waits for another request or for        *)
(* anything else: the step that serves it is enabled in every state.       *)
(***************************************************************************)
C21_EventuallyAnswered ==
    /\ [](\A q \in BagToSet(inflight) : ENABLED Serve(q))
    /\ (inflight # EmptyBag) ~> (inflight = EmptyBag)

\* a POST /users was answered by its handler while another request like it
\* was in flight, and that one was answered too
C21_Witness ==
    /\ Len(log) = 3
    /\ inflight = EmptyBag
    /\ IsPost(log[1]) /\ log[1].raced
    /\ IsPost(log[2]) /\ log[2].body = log[1].body
    /\ IsGetUsers(log[3])
    /\ log[3].users = Stringified(users)

\* the two refusals of POST /users, by the text of the response
IsMissingRefusal(e) == e.status = 400 /\ e.text = "Missing user Id"
IsDuplicateRefusal(e) == e.status = 400 /\ e.text = "User already exists"

(***************************************************************************)
(* C22: POST /users checks for a missing userId before it looks into the   *)
(* store: a request is answered 400 with the missing-id message exactly    *)
(* when its userId is missing or falsy, and 400 with the already-exists    *)
(* message exactly when its userId is neither and is in the store; no      *)
(* response is both, and every 400 of the handler is one of the two.       *)
(***************************************************************************)
C22_ValidationOrder ==
    \A k \in 1..Len(log) :
        IsPost(log[k])
        => /\ IsMissingRefusal(log[k]) <=> UserIdOf(k) \in Missing
           /\ IsDuplicateRefusal(log[k])
              <=> (UserIdOf(k) \notin Missing /\ Holds(log[k].before, UserIdOf(k)))
           /\ ~(IsMissingRefusal(log[k]) /\ IsDuplicateRefusal(log[k]))
           /\ log[k].status = 400
              => (IsMissingRefusal(log[k]) \/ IsDuplicateRefusal(log[k]))
           /\ \A j \in 1..Len(log) :
                 (/\ IsPost(log[j])
                  /\ log[j].status = 400 /\ log[k].status = 400
                  /\ UserIdOf(j) \in Missing /\ UserIdOf(k) \notin Missing)
                 => log[j].text # log[k].text

\* on a store that holds an identifier, an empty userId was refused as
\* missing and the identifier was refused as a duplicate
C22_Witness ==
    /\ Len(log) = 3
    /\ IsRegistration(log[1]) /\ IsIdentifier(UserIdOf(1))
    /\ IsPost(log[2]) /\ HasUserId(2) /\ UserIdOf(2).kind = "string"
    /\ IsMissingRefusal(log[2])
    /\ IsPost(log[3]) /\ UserIdOf(3) = UserIdOf(1)
    /\ IsDuplicateRefusal(log[3])
    /\ log[2].text # log[3].text

\* the two values are strings that differ, and differ in nothing but letter
\* case and the white space around them
Lookalikes(v, w) ==
    /\ IsIdentifier(v) /\ IsIdentifier(w)
    /\ v.val # w.val
    /\ TrimLower(v.val) = TrimLower(w.val)

(***************************************************************************)
(* C23: duplicates are found by exact string match.  A POST /users for an  *)
(* identifier is refused exactly when the store holds a string with the    *)
(* very same characters; a string that differs from it in letter case or   *)
(* in white space before or after is another identifier, and registering   *)
(* it does not make a later registration of the first one a duplicate.     *)
(***************************************************************************)
C23_ExactMatch ==
    /\ \A k \in 1..Len(log) :
          (IsPost(log[k]) /\ IsIdentifier(UserIdOf(k)))
          => (log[k].status = 400
              <=> \E m \in 1..Len(log[k].before) :
                     /\ log[k].before[m].kind = "string"
                     /\ log[k].before[m].val = UserIdOf(k).val)
    /\ \A a, b \in 1..Len(log) :
          (/\ a < b
           /\ IsRegistration(log[a]) /\ IsPost(log[b])
           /\ Lookalikes(UserIdOf(a), UserIdOf(b))
           /\ ~Holds(log[b].before, UserIdOf(b)))
          => /\ log[b].status = 201
             /\ Holds(log[b].after, UserIdOf(a))
             /\ Holds(log[b].after, UserIdOf(b))

\* three registrations of strings that differ in case and white space only
C23_Witness ==
    /\ Len(log) = 3
    /\ IsRegistration(log[1]) /\ IsRegistration(log[2]) /\ IsRegistration(log[3])
    /\ Lookalikes(UserIdOf(1), UserIdOf(2))
    /\ Lookalikes(UserIdOf(1), UserIdOf(3))
    /\ Lookalikes(UserIdOf(2), UserIdOf(3))
    /\ UserIdOf(2).val = "Alice"
    /\ Len(users) = 3

\* the number of POST /users requests answered 201 in the process run r
Registered(r) ==
    Cardinality({ k \in 1..Len(log) : IsRegistration(log[k]) /\ log[k].run = r })

(***************************************************************************)
(* C24: in every reachable state the length of the store is the number of  *)
(* POST /users requests answered 201 since the process was started.        *)
(***************************************************************************)
C24_LengthCountsRegistrations ==
    Len(users) = Registered(run)

\* one registration in the first run, and after a restart in the second run
\* one registration of another value
C24_Witness ==
    /\ Len(log) = 2
    /\ run = 2
    /\ IsRegistration(log[1]) /\ log[1].run = 1
    /\ IsRegistration(log[2]) /\ log[2].run = 2
    /\ UserIdOf(1) # UserIdOf(2)
    /\ Registered(1) = 1 /\ Registered(2) = 1
    /\ Len(users) = 1

(***************************************************************************)
(* C25: registration is permanent within a process run.  Every entry of    *)
(* the store is the userId of a POST /users answered 201 earlier in the    *)
(* run; what was answered 201 in the run is in the store in every later    *)
(* state of the run; and every later POST /users of the run for an         *)
(* identifier answered 201 is answered 400.                                *)
(***************************************************************************)
C25_Permanent ==
    /\ \A i \in 1..Len(users) :
          \E k \in 1..Len(log) :
              /\ IsRegistration(log[k]) /\ log[k].run = run
              /\ UserIdOf(k) = users[i]
    /\ \A k \in 1..Len(log) :
          IsRegistration(log[k])
          => /\ log[k].run = run => Holds(users, UserIdOf(k))
             /\ \A j \in (k + 1)..Len(log) :
                   log[j].run = log[k].run
                   => /\ Holds(log[j].before, UserIdOf(k))
                      /\ Holds(log[j].after, UserIdOf(k))
                      /\ (/\ IsPost(log[j])
                          /\ IsIdentifier(UserIdOf(k))
                          /\ UserIdOf(j) = UserIdOf(k))
                         => log[j].status = 400

\* an identifier was registered first, another after it, and then the first
\* was sent again and refused
C25_Witness ==
    /\ Len(log) = 3
    /\ run = 1
    /\ IsRegistration(log[1]) /\ IsIdentifier(UserIdOf(1))
    /\ IsRegistration(log[2]) /\ IsIdentifier(UserIdOf(2))
    /\ IsPost(log[3]) /\ UserIdOf(3) = UserIdOf(1) /\ log[3].status = 400
    /\ users = <<UserIdOf(1), UserIdOf(2)>>

(***************************************************************************)
(* Concurrent requests.  The clients send their requests at the same time: *)
(* every request is accepted before the first response is sent, so all     *)
(* requests of a behaviour are in flight together and their handlers run   *)
(* in any order.                                                           *)
(***************************************************************************)
NextBurst ==
    \/ \E body \in PostBodies : log = <<>> /\ Receive("POST /users", body)
    \/ \E route \in {"GET /", "GET /users"} :
          log = <<>> /\ Receive(route, [form |-> "none"])
    \/ \E q \in BagToSet(inflight) : ErrorHandler(q)
    \/ \E q \in BagToSet(inflight) : GetRoot(q)
    \/ \E q \in BagToSet(inflight) : GetUsers(q)
    \/ \E q \in BagToSet(inflight) : PostUsers(q)

SpecBurst == Init /\ [][NextBurst]_vars

\* the k-th response answers a POST /users for an identifier that no other
\* request, answered or in flight, carries, and that was not registered
\* when the requests arrived
AloneWithItsId(k) ==
    /\ IsPost(log[k])
    /\ IsIdentifier(UserIdOf(k))
    /\ ~Holds(log[1].before, UserIdOf(k))
    /\ \A j \in 1..Len(log) : j # k => log[j].body # log[k].body
    /\ CopiesIn([route |-> log[k].route, body |-> log[k].body], inflight) = 0

(***************************************************************************)
(* C26: of the POST /users requests that are in flight together, those for *)
(* pairwise distinct, unregistered, non-empty identifiers are all answered *)
(* 201, whatever the order in which the handlers run and whatever else is  *)
(* in flight; each identifier is appended when its handler runs, none is   *)
(* lost, and the store lists them in the order of their handlers.          *)
(***************************************************************************)
C26_ConcurrentDistinct ==
    /\ \A k \in 1..Len(log) :
          AloneWithItsId(k)
          => /\ log[k].status = 201
             /\ log[k].after = Append(log[k].before, UserIdOf(k))
             /\ Copies(users, UserIdOf(k)) = 1
    /\ \A a, b \in 1..Len(log) :
          (a < b /\ AloneWithItsId(a) /\ AloneWithItsId(b))
          => \E i, j \in 1..Len(users) :
                /\ i < j
                /\ users[i] = UserIdOf(a)
                /\ users[j] = UserIdOf(b)

\* two requests for two identifiers were in flight together and both are
\* registered, in the order of the responses
C26_Witness ==
    /\ Len(log) = 2
    /\ inflight = EmptyBag
    /\ AloneWithItsId(1) /\ AloneWithItsId(2)
    /\ log[1].status = 201 /\ log[2].status = 201
    /\ users = <<UserIdOf(1), UserIdOf(2)>>

\* the values a sequence holds
Range(arr) == { arr[k] : k \in 1..Len(arr) }

\* the statuses and the store of POST /users for v and then for w, starting
\* from the store arr
InSequence(arr, v, w) ==
    LET first == PostUsersOutcome(arr, v)
        second == PostUsersOutcome(first.users, w)
    IN  [of1 |-> first.status, of2 |-> second.status, users |-> second.users]

(***************************************************************************)
(* C27: registrations of different identifiers are independent.  The       *)
(* status of a POST /users for an identifier s is 400 when s is in the     *)
(* store and 201 when it is not, whatever else the store holds; and for    *)
(* two different identifiers s and t, on every reachable store, s then t   *)
(* and t then s give s the same status, t the same status, and stores      *)
(* that hold the same values, in an order that may differ.                 *)
(***************************************************************************)
C27_Independent ==
    /\ \A k \in 1..Len(log) :
          IsPost(log[k])
          => /\ log[k].status = PostUsersOutcome(log[k].before, UserIdOf(k)).status
             /\ log[k].after = PostUsersOutcome(log[k].before, UserIdOf(k)).users
             /\ IsIdentifier(UserIdOf(k))
                => (log[k].status = 400 <=> UserIdOf(k) \in Range(log[k].before))
    /\ \A s, t \in Identifiers :
          s # t
          => LET st == InSequence(users, s, t)
                 ts == InSequence(users, t, s)
             IN  /\ st.of1 = ts.of2
                 /\ st.of2 = ts.of1
                 /\ Range(st.users) = Range(ts.users)
                 /\ Len(st.users) = Len(ts.users)
                 /\ st.of1 = (IF s \in Range(users) THEN 400 ELSE 201)
                 /\ st.of2 = (IF t \in Range(users) THEN 400 ELSE 201)

\* the store holds one identifier; that one and another were sent, in one
\* order here and with the same outcome in the other order
C27_Witness ==
    /\ Len(log) = 3
    /\ IsRegistration(log[1]) /\ IsIdentifier(UserIdOf(1))
    /\ IsPost(log[2]) /\ UserIdOf(2) = UserIdOf(1) /\ log[2].status = 400
    /\ IsPost(log[3]) /\ IsIdentifier(UserIdOf(3)) /\ log[3].status = 201
    /\ LET ts == InSequence(log[1].after, UserIdOf(3), UserIdOf(2))
       IN  /\ ts.of1 = 201 /\ ts.of2 = 400
           /\ Range(ts.users) = Range(users)

\* the responses of the process run r, in the order they were sent
RunEntries(r) == SelectSeq(log, LAMBDA e : e.run = r)

\* two log entries answer the same request
SameRequest(d, e) == d.route = e.route /\ d.body = e.body

\* two log entries carry the same response: status and body
SameResponse(d, e) ==
    /\ d.status = e.status
    /\ d.type = e.type
    /\ d.text = e.text
    /\ d.users = e.users

RequestOf(e) == [route |-> e.route, body |-> e.body]

(***************************************************************************)
(* C29: every request gets exactly one response.  A step that sends a      *)
(* response sends one: the log grows by one entry, the entry answers a     *)
(* request that was in flight, and that request is in flight no more, so   *)
(* nothing is sent for it again.  This holds on every path: the three of   *)
(* POST /users (missing id, duplicate, success) and the two GET handlers.  *)
(***************************************************************************)
C29_OneResponse ==
    [][log' # log =>
          /\ Len(log') = Len(log) + 1
          /\ SubSeq(log', 1, Len(log)) = log
          /\ LET q == RequestOf(log'[Len(log')]) IN
                /\ BagIn(q, inflight)
                /\ CopiesIn(q, inflight') = CopiesIn(q, inflight) - 1
                /\ BagCardinality(inflight') = BagCardinality(inflight) - 1]_vars

\* three requests were accepted and three responses sent, one on each path
\* of POST /users
C29_Witness ==
    /\ Len(log) = 3
    /\ inflight = EmptyBag
    /\ IsPost(log[1]) /\ IsMissingRefusal(log[1])
    /\ IsPost(log[2]) /\ log[2].status = 201
    /\ IsPost(log[3]) /\ IsDuplicateRefusal(log[3])
    /\ Events = 3

====
